---- MODULE Spec2Model ----
(***************************************************************************)
(* Model of konrad.core.RCE: the control loop of a radiative-convective    *)
(* equilibrium model (src/konrad/core.py).                                 *)
(*                                                                         *)
(* Numbers.  The Python code computes with floats.  The model keeps the    *)
(* arithmetic exact on dyadic values: timestep and a float writeevery are  *)
(* stored in half-days (timestep = 2 is one day, writeevery.value = 5 is   *)
(* 2.5 days); heating rates are in K/day; temperatures, deltaT and delta   *)
(* are stored in half-Kelvin, so that T += net_htngrt * timestep is the    *)
(* integer statement T' = T + net_htngrt * timestep.                       *)
(*                                                                         *)
(* The submodels and the netCDF sink are collaborators.  The radiation     *)
(* scheme returns any of HeatingRateResults at each call; the convection   *)
(* and the upwelling scheme are fixed at construction, each either the     *)
(* identity ("NoOp") or a scheme that changes the profile ("Active");      *)
(* lapse rate, height and humidity are functions of the profile they read; *)
(* an output operation returns or raises.                                  *)
(***************************************************************************)
EXTENDS Integers, Sequences, FiniteSets, TLC

\* ------------------------------------------------------------------ bounds
MaxIter == 4          \* largest max_iterations drawn at construction
MaxRuns == 2          \* run() calls made on one controller

\* ---------------------------------------------------------------- domains
Levels == 0 .. 1                       \* indices of the full levels (plev)
None == "None"
Outfiles == {None, "out.nc"}
Timesteps == {1, 2}                    \* half-days: 0.5 d and 1 d
Deltas == {0, 2}                       \* half-Kelvin
WriteEveries ==
    {[type |-> "int", value |-> 1], [type |-> "int", value |-> 3],
     [type |-> "float", value |-> 5],          \* 2.5 days
     [type |-> "str", value |-> 0]}            \* neither int nor float

\* The sub-model arguments of RCE.__init__: each is omitted (None), an
\* object of the type its role requires, or some other object.
Roles == {"radiation", "humidity", "surface", "cloud", "convection",
          "lapse", "upwelling"}
ArgKinds == {None, "conforming", "nonconforming"}

Nothing == [none |-> TRUE]            \* Python None where a record is held
Zero == [l \in Levels |-> 0]
phlev == [h \in 0 .. 2 |-> CASE h = 0 -> 1013 [] h = 1 -> 500 [] OTHER -> 100]
InitialT == [l \in Levels |-> IF l = 0 THEN 20 ELSE 10]
InitialSurface == [pressure |-> 1000, temperature |-> 20]

\* Outcomes of the collaborators.
HeatingRateResults ==
    {[net_htngrt |-> Zero,
      sw_flxd |-> 3, sw_flxu |-> 1, lw_flxd |-> 2, lw_flxu |-> 4],
     [net_htngrt |-> [l \in Levels |-> IF l = 0 THEN 1 ELSE -1],
      sw_flxd |-> 3, sw_flxu |-> 1, lw_flxd |-> 2, lw_flxu |-> 3]}
Schemes == {"NoOp", "Active"}
ConvectionAdjustment == [l \in Levels |-> IF l = 0 THEN -1 ELSE 1]
UpwellingCooling == [l \in Levels |-> IF l = 0 THEN 0 ELSE -1]

VARIABLES
    \* the sub-model arguments given to RCE.__init__ and what it made of them
    args, construction,
    \* sub-models (RCE.__init__): the convection and the upwelling scheme
    convection, upwelling,
    \* control parameters (RCE.__init__)
    delta, timestep, writeevery, max_iterations, outfile,
    \* internal variables of the controller
    heatingrates, converged, niter,
    \* atmosphere: T, H2O, z, deltaT
    T, H2O, z, deltaT,
    \* surface: pressure, temperature
    surface,
    \* radiation: the time (half-days) of the last adjust_solar_angle
    solar_time,
    \* run(): position, locals T (T_previous) and lapse, raised exception
    pc, T_previous, lapse, error,
    \* observation: calls of the current loop body, output operations,
    \* run() calls so far, loop bodies entered in the current run(),
    \* pc and niter at the entry of the current run(), the fluxes of the
        \* last Surface.adjust call, the last record handed to the output file,
    \* the number of calls of each submodel method in the current run()
    calls, wlog, runs, nbody, entry, adjust_args, written, invoked

vars == <<args, construction, convection, upwelling, delta, timestep, writeevery, max_iterations, outfile,
          heatingrates, converged, niter, T, H2O, z, deltaT, surface,
          solar_time, pc, T_previous, lapse, error,
          calls, wlog, runs, nbody,
                   entry, adjust_args, written, invoked>>

config == <<args, construction, convection, upwelling, delta, timestep, writeevery, max_iterations, outfile>>
atmosphere == <<T, H2O, z, deltaT>>
observe == <<calls, wlog, runs, nbody,
                   entry, adjust_args, written, invoked>>

\* The submodel methods run() calls once per loop body, lines 210-259.
Counted == {"get_heatingrates", "surface_adjust", "stabilize", "cool",
            "humidity_get"}
NotInvoked == [c \in Counted |-> 0]

\* ------------------------------------------------------- pure operations
Abs(x) == IF x < 0 THEN -x ELSE x

\* Atmosphere.calculate_height: the height field is a function of the
\* temperature profile; the model keeps the profile it was computed from.
HeightOf(t) == [from |-> t]

\* Humidity.get: the humidity profile is a function of the atmosphere
\* (temperature and height) it is given.
HumidityOf(t, height) == [T |-> t, z |-> height]

\* LapseRate.get: the critical lapse rate is a function of the atmosphere;
\* the model keeps the profile it was computed from.
LapseOf(t) == [from |-> t]

\* RCE.get_hours_passed: niter * 24 * timestep, in hours (timestep is in
\* half-days, so an hour count is niter * 12 * timestep).
get_hours_passed_per_day(n, ts) == n * 24
get_hours_passed(n, ts) == n * 12 * ts

\* RCE.is_converged
is_converged_inclusive(dT, d) == \A l \in Levels : Abs(dT[l]) <= d
is_converged(dT, d) == \A l \in Levels : Abs(dT[l]) < d

\* RCE.check_if_write raises TypeError
check_if_write_raises(of, we) ==
    of # None /\ we.type \notin {"int", "float"}

check_if_write_shifted(of, we, n, ts) ==
    IF of = None THEN FALSE
    ELSE IF we.type = "int" THEN (n + 1) % we.value = 0
    ELSE (((2 * n + 1) * ts) % (2 * we.value)) < 2 * ts

check_if_write_no_offset(of, we, n, ts) ==
    IF of = None THEN FALSE
    ELSE IF we.type = "int" THEN n % we.value = 0
    ELSE ((2 * n * ts) % (2 * we.value)) < 2 * ts

check_if_write_any_outfile(of, we, n, ts) ==
    IF we.type = "int" THEN n % we.value = 0
    ELSE IF we.type = "float"
         THEN (((2 * n + 1) * ts) % (2 * we.value)) < 2 * ts
    ELSE FALSE

\* RCE.check_if_write, when it returns.  In the float branch
\* r = ((niter + 0.5) * timestep) % writeevery and r < timestep are
\* evaluated in quarter-days: (2 niter + 1) * timestep and 2 * writeevery.
check_if_write(of, we, n, ts) ==
    IF of = None THEN FALSE
    ELSE IF we.type = "int" THEN n % we.value = 0
    ELSE (((2 * n + 1) * ts) % (2 * we.value)) < 2 * ts

\* utils.return_if_type(variable, name, type, default): the default for
\* None, the variable if it is of the type, an error otherwise.
return_if_type(variable) ==
    IF variable = None THEN "default"
    ELSE IF variable = "conforming" THEN "supplied"
    ELSE "error"

\* RCE.__init__, lines 69-72: the radiation argument is taken as it is.
radiation_taken(variable) == IF variable = None THEN "default" ELSE "supplied"

\* RCE.__init__, lines 67-87: the sub-model each role ends up with.
Resolved(a) ==
    [r \in Roles |-> IF r = "radiation" THEN radiation_taken(a[r])
                     ELSE return_if_type(a[r])]

\* ------------------------------------------------------------------ Init
\* The controller after RCE.__init__ returned.
Init ==
    /\ args = [r \in Roles |-> None]
    /\ construction = [status |-> "ok", submodels |-> Resolved(args)]
    /\ convection \in Schemes
    /\ upwelling \in Schemes
    /\ delta \in Deltas
    /\ timestep \in Timesteps
    /\ writeevery \in WriteEveries
    /\ max_iterations \in 0 .. MaxIter
    /\ outfile \in Outfiles
    /\ heatingrates = Nothing
    /\ converged = FALSE
    /\ niter = 0
    /\ T = InitialT
    /\ H2O = HumidityOf(InitialT, HeightOf(InitialT))
    /\ z = HeightOf(InitialT)
    /\ deltaT = Zero
    /\ surface = InitialSurface
    /\ solar_time = 0
    /\ pc = "idle"
    /\ T_previous = InitialT
    /\ lapse = Nothing
    /\ error = None
    /\ calls = << >>
    /\ wlog = << >>
    /\ runs = 0
    /\ nbody = 0
    /\ entry = [from |-> "idle", niter |-> 0]
    /\ adjust_args = Nothing
    /\ written = Nothing
    /\ invoked = NotInvoked

\* --------------------------------------------------------------- actions
\* Entry of a loop-body step: the step named `call` is logged.
Logged(call) == calls' = Append(calls, call)

\* A call of the submodel method `call`: one more in this run().
Invoked(call) == invoked' = [invoked EXCEPT ![call] = @ + 1]

\* self.surface['pressure'] = self.atmosphere['phlev'][0], line 197.
PressureKept(sfc) == sfc
PressureInitialised(sfc) == [sfc EXCEPT !.pressure = phlev[0]]

\* run(), lines 191-197: surface pressure := lowest half-level pressure.
RunStart ==
    /\ pc \in {"idle", "done", "error"}
    /\ runs < MaxRuns
    /\ surface' = PressureInitialised(surface)
    /\ pc' = "while"
    /\ error' = None
    /\ runs' = runs + 1
    /\ nbody' = 0
    /\ calls' = << >>
        /\ entry' = [from |-> pc, niter |-> niter]
    /\ invoked' = NotInvoked
    /\ UNCHANGED <<config, heatingrates, converged, niter, atmosphere,
                   solar_time, T_previous, lapse, wlog, adjust_args,
                   written>>

\* The condition of the while loop, line 201.
LoopConditionInclusive(n, max) == n <= max
LoopCondition(n, max) == n < max

\* while self.niter < self.max_iterations, line 201: enter the loop body.
LoopEnter ==
    /\ pc = "while"
    /\ LoopCondition(niter, max_iterations)
    /\ pc' = "adjust_solar_angle"
    /\ nbody' = nbody + 1
    /\ calls' = << >>
    /\ UNCHANGED <<config, heatingrates, converged, niter, atmosphere,
                   surface, solar_time, T_previous, lapse, error, wlog, runs,
                   entry, adjust_args, written, invoked>>

\* The while condition is false: the else branch, lines 281-282.
LoopExhausted ==
    /\ pc = "while"
    /\ ~LoopCondition(niter, max_iterations)
    /\ pc' = "done"
    /\ UNCHANGED <<config, heatingrates, converged, niter, atmosphere,
                   surface, solar_time, T_previous, lapse, error, observe>>

\* self.radiation.adjust_solar_angle(self.get_hours_passed() / 24), line 209
\* (hours / 24 days = hours / 12 half-days).
AdjustSolarAngle ==
    /\ pc = "adjust_solar_angle"
    /\ solar_time' = get_hours_passed(niter, timestep) \div 12
    /\ Logged("adjust_solar_angle")
    /\ pc' = "get_heatingrates"
    /\ UNCHANGED <<config, heatingrates, converged, niter, atmosphere,
                   surface, T_previous, lapse, error, wlog, runs, nbody,
                   entry, adjust_args, written, invoked>>

\* The statement after get_heatingrates returns: the surface update,
\* lines 216-223.
StepAfterHeatingratesSkipsSurface == "copy_T"
StepAfterHeatingrates == "surface_adjust"

\* self.heatingrates = self.radiation.get_heatingrates(...), lines 210-214.
GetHeatingrates ==
    /\ pc = "get_heatingrates"
    /\ heatingrates' \in HeatingRateResults
    /\ Logged("get_heatingrates")
    /\ Invoked("get_heatingrates")
    /\ pc' = StepAfterHeatingrates
    /\ UNCHANGED <<config, converged, niter, atmosphere, surface, solar_time,
                   T_previous, lapse, error, wlog, runs, nbody,
                   entry, adjust_args, written>>

\* Surface.adjust: the energy balance of the level-0 fluxes over timestep.
SurfaceAdjusted(sfc, sw_down, sw_up, lw_down, lw_up, ts) ==
    [sfc EXCEPT !.temperature = @ + (sw_down - sw_up + lw_down - lw_up) * ts]

\* self.surface.adjust(...), lines 217-223.
SurfaceAdjust ==
    /\ pc = "surface_adjust"
    /\ surface' = SurfaceAdjusted(surface,
                                  heatingrates.sw_flxd, heatingrates.sw_flxu,
                                  heatingrates.lw_flxd, heatingrates.lw_flxu,
                                  timestep)
    /\ adjust_args' = [sw_down |-> heatingrates.sw_flxd,
                       sw_up |-> heatingrates.sw_flxu,
                       lw_down |-> heatingrates.lw_flxd,
                       lw_up |-> heatingrates.lw_flxu,
                       timestep |-> timestep]
    /\ Logged("surface_adjust")
    /\ Invoked("surface_adjust")
    /\ pc' = "copy_T"
    /\ UNCHANGED <<config, heatingrates, converged, niter, atmosphere,
                   solar_time, T_previous, lapse, error, wlog, runs, nbody,
                   entry, written>>

\* T = self.atmosphere['T'].values.copy(), line 227.
CopyT ==
    /\ pc = "copy_T"
    /\ T_previous' = T
    /\ Logged("copy_T")
    /\ pc' = "lapse_get"
    /\ UNCHANGED <<config, heatingrates, converged, niter, atmosphere,
                   surface, solar_time, lapse, error, wlog, runs, nbody,
                   entry, adjust_args, written, invoked>>

\* lapse = self.lapse.get(self.atmosphere), line 230.
LapseGet ==
    /\ pc = "lapse_get"
    /\ lapse' = LapseOf(T)
    /\ Logged("lapse_get")
    /\ pc' = "apply_heatingrates"
    /\ UNCHANGED <<config, heatingrates, converged, niter, atmosphere,
                   surface, solar_time, T_previous, error, wlog, runs, nbody,
                   entry, adjust_args, written, invoked>>

\* self.atmosphere['T'] += net_htngrt * timestep, lines 233-234.
NotHeated(t, net_htngrt, ts) == t
Heated(t, net_htngrt, ts) == [l \in Levels |-> t[l] + net_htngrt[l] * ts]

ApplyHeatingrates ==
    /\ pc = "apply_heatingrates"
    /\ T' = Heated(T, heatingrates.net_htngrt, timestep)
    /\ Logged("apply_heatingrates")
    /\ pc' = "stabilize"
    /\ UNCHANGED <<config, heatingrates, converged, niter, H2O, z, deltaT,
                   surface, solar_time, T_previous, lapse, error, wlog,
                   runs, nbody,
                   entry, adjust_args, written, invoked>>

\* Convection.stabilize: mutates the atmosphere (and the surface
\* temperature) in place.
Stabilized(scheme, t) ==
    IF scheme = "NoOp" THEN t
    ELSE [l \in Levels |-> t[l] + ConvectionAdjustment[l]]
StabilizedSurface(scheme, sfc) ==
    IF scheme = "NoOp" THEN sfc
    ELSE [sfc EXCEPT !.temperature = @ - ConvectionAdjustment[0]]

\* self.convection.stabilize(...), lines 237-242.
Stabilize ==
    /\ pc = "stabilize"
    /\ T' = Stabilized(convection, T)
    /\ surface' = StabilizedSurface(convection, surface)
    /\ Logged("stabilize")
    /\ Invoked("stabilize")
    /\ pc' = "cool"
    /\ UNCHANGED <<config, heatingrates, converged, niter, H2O, z, deltaT,
                   solar_time, T_previous, lapse, error, wlog, runs, nbody,
                   entry, adjust_args, written>>

\* Upwelling.cool: mutates the atmosphere in place.
Cooled(scheme, t) ==
    IF scheme = "NoOp" THEN t
    ELSE [l \in Levels |-> t[l] + UpwellingCooling[l]]

\* The statement after self.upwelling.cool(...), line 252.
StepAfterCoolSkipsHeight == "humidity_get"
StepAfterCool == "calculate_height"

\* self.upwelling.cool(...), lines 245-249.
Cool ==
    /\ pc = "cool"
    /\ T' = Cooled(upwelling, T)
    /\ Logged("cool")
    /\ Invoked("cool")
    /\ pc' = StepAfterCool
    /\ UNCHANGED <<config, heatingrates, converged, niter, H2O, z, deltaT,
                   surface, solar_time, T_previous, lapse, error, wlog, runs, nbody,
                   entry, adjust_args, written>>

\* self.atmosphere.calculate_height(), line 252.
CalculateHeight ==
    /\ pc = "calculate_height"
    /\ z' = HeightOf(T)
    /\ Logged("calculate_height")
    /\ pc' = "humidity_get"
    /\ UNCHANGED <<config, heatingrates, converged, niter, T, H2O, deltaT,
                   surface, solar_time, T_previous, lapse, error, wlog,
                   runs, nbody,
                   entry, adjust_args, written, invoked>>

\* self.atmosphere['H2O'][0, :] = self.humidity.get(...), lines 255-259.
HumidityGet ==
    /\ pc = "humidity_get"
    /\ H2O' = HumidityOf(T, z)
    /\ Logged("humidity_get")
    /\ Invoked("humidity_get")
    /\ pc' = "deltaT"
    /\ UNCHANGED <<config, heatingrates, converged, niter, T, z, deltaT,
                   surface, solar_time, T_previous, lapse, error, wlog, runs, nbody,
                   entry, adjust_args, written>>

\* self.atmosphere['deltaT'] = self.atmosphere['T'] - T, line 262.
NoDifference(t, t_prev) == t
Difference(t, t_prev) == [l \in Levels |-> t[l] - t_prev[l]]

\* The statement after the deltaT assignment, line 265.
StepAfterDeltaTSkipsWrite == "is_converged"
StepAfterDeltaT == "check_if_write"

ComputeDeltaT ==
    /\ pc = "deltaT"
    /\ deltaT' = Difference(T, T_previous)
    /\ Logged("deltaT")
    /\ pc' = StepAfterDeltaT
    /\ UNCHANGED <<config, heatingrates, converged, niter, T, H2O, z,
                   surface, solar_time, T_previous, lapse, error, wlog,
                   runs, nbody,
                   entry, adjust_args, written, invoked>>

\* The output operation of a write iteration, lines 267-271.
OutputOpAppendOnly(n) == "append"
OutputOp(n) == IF n = 0 THEN "create" ELSE "append"

\* An entry of wlog: what the write step of iteration n did.
WriteEntry(n, op, ok) ==
    [niter |-> n, op |-> op, ok |-> ok, run |-> runs,
     time |-> get_hours_passed(n, timestep)]

\* The data handed to create_outfile / append_to_netcdf: the atmosphere
\* merged with the heating rates and the surface, lines 160-161, 182-183.
Record(n) ==
    [niter |-> n, run |-> runs, T |-> T, H2O |-> H2O, deltaT |-> deltaT,
     heatingrates |-> heatingrates, surface |-> surface]

\* if self.check_if_write(): nothing is scheduled, lines 264-265.
SkipWrite ==
    /\ pc = "check_if_write"
    /\ ~check_if_write_raises(outfile, writeevery)
    /\ ~check_if_write(outfile, writeevery, niter, timestep)
    /\ wlog' = Append(wlog, WriteEntry(niter, "none", TRUE))
    /\ pc' = "is_converged"
    /\ UNCHANGED <<config, heatingrates, converged, niter, atmosphere,
                   surface, solar_time, T_previous, lapse, error, calls,
                   runs, nbody,
                   entry, adjust_args, written, invoked>>

\* create_outfile() or append_to_netcdf() returns, lines 265-271.
Write ==
    /\ pc = "check_if_write"
    /\ ~check_if_write_raises(outfile, writeevery)
    /\ check_if_write(outfile, writeevery, niter, timestep)
        /\ wlog' = Append(wlog, WriteEntry(niter, OutputOp(niter), TRUE))
    /\ written' = Record(niter)
    /\ pc' = "is_converged"
    /\ UNCHANGED <<config, heatingrates, converged, niter, atmosphere,
                   surface, solar_time, T_previous, lapse, error, calls,
                   runs, nbody, entry, adjust_args, invoked>>

\* Where run() is after an exception of the output operation: it has no
\* try statement, so the exception leaves run().
Swallowed == "is_converged"
Raised == "error"

\* create_outfile() or append_to_netcdf() raises: run() propagates it.
WriteFails ==
    /\ pc = "check_if_write"
    /\ ~check_if_write_raises(outfile, writeevery)
    /\ check_if_write(outfile, writeevery, niter, timestep)
        /\ wlog' = Append(wlog, WriteEntry(niter, OutputOp(niter), FALSE))
    /\ pc' = Raised
    /\ error' = "IOError"
    /\ UNCHANGED <<config, heatingrates, converged, niter, atmosphere,
                   surface, solar_time, T_previous, lapse, calls, runs, nbody,
                   entry, adjust_args, written, invoked>>

\* check_if_write() raises TypeError, line 153: run() propagates it.
WriteTypeError ==
    /\ pc = "check_if_write"
    /\ check_if_write_raises(outfile, writeevery)
    /\ pc' = "error"
    /\ error' = "TypeError"
    /\ UNCHANGED <<config, heatingrates, converged, niter, atmosphere,
                   surface, solar_time, T_previous, lapse, calls, wlog,
                   runs, nbody,
                   entry, adjust_args, written, invoked>>

\* niter at the break, lines 274-277: it is left as it is.
CountedAtBreak(n) == n + 1
AtBreak(n) == n

\* if self.is_converged(): break, lines 274-277.
Converged ==
    /\ pc = "is_converged"
    /\ is_converged(deltaT, delta)
    /\ pc' = "done"
    /\ niter' = AtBreak(niter)
    /\ UNCHANGED <<config, heatingrates, converged, atmosphere,
                   surface, solar_time, T_previous, lapse, error, observe>>

\* self.niter += 1, line 280.
NotIncremented(n) == n
IncrementedTwice(n) == n + 2
Incremented(n) == n + 1

\* else: self.niter += 1, lines 279-280.
NextIteration ==
    /\ pc = "is_converged"
    /\ ~is_converged(deltaT, delta)
    /\ niter' = Incremented(niter)
    /\ pc' = "while"
    /\ UNCHANGED <<config, heatingrates, converged, atmosphere, surface,
                   solar_time, T_previous, lapse, error, observe>>

Next ==
    \/ RunStart
    \/ LoopEnter
    \/ LoopExhausted
    \/ AdjustSolarAngle
    \/ GetHeatingrates
    \/ SurfaceAdjust
    \/ CopyT
    \/ LapseGet
    \/ ApplyHeatingrates
    \/ Stabilize
    \/ Cool
    \/ CalculateHeight
    \/ HumidityGet
    \/ ComputeDeltaT
    \/ SkipWrite
    \/ Write
    \/ WriteFails
    \/ WriteTypeError
    \/ Converged
    \/ NextIteration

Spec == Init /\ [][Next]_vars

\* run() is one thread of control: a step that can be taken is taken.
\* Whether run() ends does not depend on the values the physics produce:
\* the fair specification keeps one timestep and one convection scheme.
InitFair == Init /\ timestep = 2 /\ convection = "NoOp"
FairSpec == InitFair /\ [][Next]_vars /\ WF_vars(Next)

\* ----------------------------------------------------------- RCE.__init__
\* Before RCE.__init__: any combination of sub-model arguments.
InitConstruct ==
    /\ args \in [Roles -> ArgKinds]
    /\ construction = [status |-> "pending",
                       submodels |-> [r \in Roles |-> "unset"]]
    /\ convection = "Active"
    /\ upwelling = "NoOp"
    /\ delta = 2
    /\ timestep = 2
    /\ writeevery = [type |-> "int", value |-> 1]
    /\ max_iterations = MaxIter
    /\ outfile = None
    /\ heatingrates = Nothing
    /\ converged = FALSE
    /\ niter = 0
    /\ T = InitialT
    /\ H2O = HumidityOf(InitialT, HeightOf(InitialT))
    /\ z = HeightOf(InitialT)
    /\ deltaT = Zero
    /\ surface = InitialSurface
    /\ solar_time = 0
    /\ pc = "new"
    /\ T_previous = InitialT
    /\ lapse = Nothing
    /\ error = None
    /\ calls = << >>
    /\ wlog = << >>
    /\ runs = 0
    /\ nbody = 0
    /\ entry = [from |-> "idle", niter |-> 0]
    /\ adjust_args = Nothing
    /\ written = Nothing
    /\ invoked = NotInvoked

\* RCE.__init__ returns, lines 67-106.
Construct ==
    /\ pc = "new"
    /\ \A r \in Roles : Resolved(args)[r] # "error"
    /\ construction' = [status |-> "ok", submodels |-> Resolved(args)]
    /\ pc' = "idle"
    /\ UNCHANGED <<args, convection, upwelling, delta, timestep, writeevery,
                   max_iterations, outfile, heatingrates, converged, niter,
                   atmosphere, surface, solar_time, T_previous, lapse, error,
                   observe>>

\* utils.return_if_type raises in RCE.__init__, lines 74-87.
ConstructFails ==
    /\ pc = "new"
    /\ \E r \in Roles : Resolved(args)[r] = "error"
    /\ construction' = [status |-> "error",
                        submodels |-> [r \in Roles |-> "unset"]]
    /\ pc' = "error"
    /\ error' = "ConfigurationError"
    /\ UNCHANGED <<args, convection, upwelling, delta, timestep, writeevery,
                   max_iterations, outfile, heatingrates, converged, niter,
                   atmosphere, surface, solar_time, T_previous, lapse,
                   observe>>

NextConstruct == Construct \/ ConstructFails

SpecConstruct == InitConstruct /\ [][NextConstruct]_vars


\* ---------------------------------------------------------------- claims
\* The first run() of a controller (niter was 0 at its entry).
Fresh == runs = 1

\* The loop body of iteration niter has run up to the write step.
BodyDone == pc \in {"check_if_write", "is_converged"}

\* The write step of entry e performed an output operation.
Wrote(e) == e.op \in {"create", "append"}

\* No level's temperature change reaches delta, in either direction.
NoLevelReaches(dT, d) == ~ \E l \in Levels : dT[l] >= d \/ dT[l] <= -d

\* C1: when the first run() of a controller ends because the convergence
\* predicate holds at the end of an iteration, converged is true and niter
\* is the number of that iteration (the bodies entered before it).
C1_ConvergedFlagSet ==
    (pc = "done" /\ Fresh /\ nbody > 0 /\ is_converged(deltaT, delta))
        => (converged = TRUE /\ niter = nbody - 1)

\* C2: when the first run() of a controller with max_iterations > 0 ends
\* and the temperature change never fell below delta, niter equals
\* max_iterations, converged is false and no error was raised.
C2_Exhausted ==
    (pc = "done" /\ Fresh /\ max_iterations > 0
        /\ ~is_converged(deltaT, delta))
        => (niter = max_iterations /\ converged = FALSE /\ error = None
            /\ nbody = max_iterations)

C2_Witness ==
    /\ pc = "done" /\ Fresh /\ max_iterations = MaxIter
    /\ ~is_converged(deltaT, delta) /\ niter = MaxIter /\ delta > 0

\* C3: niter starts at 0 and stays within 0 .. max_iterations; it changes
\* only at the end of a loop body whose convergence check fails, and then
\* by exactly +1.
C3_NiterMonotone ==
    /\ niter = 0
    /\ [](0 <= niter /\ niter <= max_iterations)
    /\ [][niter' # niter
            => (pc = "is_converged" /\ pc' = "while"
                /\ niter' = niter + 1)]_vars
    /\ [][(pc = "is_converged" /\ ~NoLevelReaches(deltaT, delta))
            => niter' = niter + 1]_vars

C3_Witness ==
    pc = "while" /\ niter = max_iterations /\ niter >= 2 /\ nbody = niter

\* C4: the convergence check succeeds if and only if no level of the
\* deltaT of the iteration just computed (T minus the snapshot of this
\* iteration) reaches delta in magnitude; equality counts as reaching it.
C4_ConvergenceCheck ==
    /\ [](BodyDone => \A l \in Levels : deltaT[l] = T[l] - T_previous[l])
    /\ [][pc = "is_converged"
            => ((pc' = "done") <=> NoLevelReaches(deltaT, delta))]_vars
    /\ [](is_converged(deltaT, delta) <=> NoLevelReaches(deltaT, delta))

C4_Witness ==
    /\ pc = "while" /\ nbody >= 2 /\ delta > 0
    /\ \E l \in Levels : Abs(deltaT[l]) = delta
    /\ \E l \in Levels : Abs(deltaT[l]) < delta

\* C5: with an output file and an integer writeevery = c, the write step of
\* an executed iteration performs an output operation if and only if
\* niter mod c = 0.
C5_IntegerCadence ==
    (outfile # None /\ writeevery.type = "int")
        => \A i \in DOMAIN wlog :
              Wrote(wlog[i]) <=> (wlog[i].niter % writeevery.value = 0)

C5_Witness ==
    /\ outfile # None /\ writeevery.type = "int" /\ writeevery.value = 3
    /\ Len(wlog) = 4
    /\ \A i \in 1 .. 4 : wlog[i].niter = i - 1
    /\ wlog[4].op = "append" /\ wlog[2].op = "none"

\* C6: with an output file and a float writeevery = c, the write step of
\* iteration niter performs an output operation if and only if
\* (niter + 0.5) * timestep lies less than one timestep after a multiple of
\* c; for timestep = 1 day and c = 2.5 days these are the iterations with
\* niter mod 5 in {0, 2}.  (Eighth-days: timestep * 4, writeevery * 4.)
AfterBoundary(n, ts, c) ==
    \E q \in 0 .. (n + 1) * ts :
        /\ q * 4 * c <= (2 * n + 1) * 2 * ts
        /\ (2 * n + 1) * 2 * ts < q * 4 * c + 4 * ts

C6_FloatCadence ==
    (outfile # None /\ writeevery.type = "float")
        => \A i \in DOMAIN wlog :
              /\ Wrote(wlog[i])
                    <=> AfterBoundary(wlog[i].niter, timestep,
                                      writeevery.value)
              /\ (timestep = 2 /\ writeevery.value = 5)
                    => (Wrote(wlog[i]) <=> (wlog[i].niter % 5 \in {0, 2}))

C6_Witness ==
    /\ outfile # None /\ writeevery.type = "float"
    /\ timestep = 2 /\ writeevery.value = 5
    /\ Len(wlog) = 4
    /\ \A i \in 1 .. 4 : wlog[i].niter = i - 1 /\ wlog[i].ok
    /\ wlog[1].op = "create" /\ wlog[2].op = "none"
    /\ wlog[3].op = "append" /\ wlog[4].op = "none"

\* C7: without an output file no write step performs an output operation,
\* whatever niter and writeevery are, and the cadence check raises nothing.
C7_NoOutfileNoWrite ==
    outfile = None
        => /\ \A i \in DOMAIN wlog : ~Wrote(wlog[i])
           /\ error = None
           /\ (BodyDone => ~check_if_write(outfile, writeevery, niter,
                                           timestep))

C7_Witness ==
    /\ outfile = None /\ writeevery.type = "int" /\ Len(wlog) >= 3
    /\ \E i \in DOMAIN wlog : wlog[i].niter % writeevery.value = 0

\* C8: at the first adjust_solar_angle and get_heatingrates call of a run()
\* the surface pressure is the lowest half-level pressure phlev[0].
C8_SurfacePressure ==
    (pc \in {"adjust_solar_angle", "get_heatingrates"} /\ nbody = 1)
        => surface.pressure = phlev[0]

C8_Witness ==
    /\ pc = "adjust_solar_angle" /\ nbody = 1 /\ Fresh
    /\ InitialSurface.pressure # phlev[0]

\* C9: with a no-op convection and upwelling scheme and zero net heating,
\* a loop body leaves T at its snapshot and deltaT is the zero profile; for
\* delta > 0 the run then stops at this iteration (it never loops back),
\* with niter = 0 when it is the first iteration of the controller.
NoOpIteration ==
    /\ pc \in {"check_if_write", "is_converged", "while", "done"}
    /\ nbody >= 1
    /\ convection = "NoOp" /\ upwelling = "NoOp"
    /\ heatingrates.net_htngrt = Zero

C9_NoOpConverges ==
    NoOpIteration
        => /\ T = T_previous
           /\ deltaT = Zero
           /\ delta > 0 => pc # "while"
           /\ (delta > 0 /\ pc = "done" /\ Fresh /\ nbody = 1) => niter = 0

C9_Witness ==
    /\ NoOpIteration /\ pc = "done" /\ Fresh /\ nbody = 1 /\ delta > 0
    /\ niter = 0 /\ max_iterations > 1

\* C10: when Convection.stabilize is invoked, T is the snapshot of this
\* iteration plus net_htngrt * timestep (and so differs from the snapshot
\* wherever the heating is not zero), and the lapse rate passed is the one
\* of the snapshot.
C10_StabilizeSeesHeatedT ==
    pc = "stabilize"
        => /\ \A l \in Levels :
                 T[l] - T_previous[l] = heatingrates.net_htngrt[l] * timestep
           /\ (heatingrates.net_htngrt # Zero => T # T_previous)
           /\ lapse = LapseOf(T_previous)

C10_Witness ==
    /\ pc = "stabilize" /\ nbody >= 2 /\ heatingrates.net_htngrt # Zero
    /\ T_previous # InitialT

\* The last entry of the write log.
LastWrite == wlog[Len(wlog)]

\* The statements of one loop body, in the order of the claim.
Order ==
    <<"adjust_solar_angle", "get_heatingrates", "surface_adjust", "copy_T",
      "lapse_get", "apply_heatingrates", "stabilize", "cool",
      "calculate_height", "humidity_get", "deltaT">>

\* T after the physics of a loop body that started from the snapshot.
PostPhysics ==
    Cooled(upwelling,
           Stabilized(convection,
                      Heated(T_previous, heatingrates.net_htngrt, timestep)))

\* C11: once a run() has ended in Converged or Exhausted, a further run()
\* executes no loop body and leaves niter as it was.
C11_TerminalStates ==
    entry.from = "done" => (nbody = 0 /\ niter = entry.niter)

\* C12: after the normal return of the first run() with max_iterations > 0
\* either the run converged (is_converged and niter < max_iterations) or it
\* was exhausted (niter = max_iterations and not is_converged).
C12_FinalStatus ==
    (pc = "done" /\ Fresh /\ max_iterations > 0)
        => \/ is_converged(deltaT, delta) /\ niter < max_iterations
           \/ ~is_converged(deltaT, delta) /\ niter = max_iterations

C12_Witness ==
    /\ pc = "done" /\ Fresh /\ max_iterations >= 2
    /\ is_converged(deltaT, delta)
    /\ niter = max_iterations - 1 /\ nbody = max_iterations

\* C13: RCE.__init__ fails exactly when some supplied sub-model is not of
\* the type its role requires, whatever the role; an omitted sub-model is
\* replaced by its default.
C13_ConstructionChecksEveryRole ==
    construction.status # "pending"
        => /\ construction.status = "error"
                <=> \E r \in Roles : args[r] = "nonconforming"
           /\ construction.status = "ok"
                => \A r \in Roles :
                      args[r] = None => construction.submodels[r] = "default"

\* C14: with a writeevery that is neither int nor float, no run() gets past
\* the cadence check of its first iteration and niter stays 0, with or
\* without an output file.
C14_BadCadenceRaises ==
    writeevery.type \notin {"int", "float"}
        => /\ niter = 0
           /\ pc # "is_converged"
           /\ pc = "done" => nbody = 0

\* C15: in iteration k the solar angle is set for k * timestep days, a
\* record appended in iteration k carries k * 24 * timestep hours, and the
\* timestamps of the records appended in one run() increase strictly.
\* (solar_time and timestep are in half-days: hours = 12 * half-days.)
C15_HoursPassed ==
    /\ pc = "get_heatingrates" => solar_time = niter * timestep
    /\ \A i \in DOMAIN wlog :
          wlog[i].op = "append"
              => 2 * wlog[i].time = wlog[i].niter * 24 * timestep
    /\ \A i, j \in DOMAIN wlog :
          (i < j /\ wlog[i].run = wlog[j].run
                 /\ wlog[i].op = "append" /\ wlog[j].op = "append")
              => wlog[i].time < wlog[j].time

C15_Witness ==
    /\ timestep = 1
    /\ \E i, j \in DOMAIN wlog :
          /\ i < j /\ wlog[i].run = wlog[j].run
          /\ wlog[i].op = "append" /\ wlog[j].op = "append"
          /\ wlog[j].niter = 3

\* C16: a loop body executes its statements in the order of Order, each
\* once; Surface.adjust receives the level-0 fluxes of this iteration's
\* heating rates; Humidity.get reads the T left by convection and
\* upwelling and the height recomputed from it.
C16_CallOrder ==
    /\ calls = SubSeq(Order, 1, Len(calls))
    /\ pc \in {Order[i] : i \in DOMAIN Order} => pc = Order[Len(calls) + 1]
    /\ BodyDone => calls = Order
    /\ pc = "copy_T"
          => adjust_args = [sw_down |-> heatingrates.sw_flxd,
                            sw_up |-> heatingrates.sw_flxu,
                            lw_down |-> heatingrates.lw_flxd,
                            lw_up |-> heatingrates.lw_flxu,
                            timestep |-> timestep]
    /\ BodyDone
          => /\ T = PostPhysics
             /\ z = HeightOf(T)
             /\ H2O = HumidityOf(T, HeightOf(T))
             /\ deltaT = [l \in Levels |-> T[l] - T_previous[l]]

C16_Witness ==
    /\ BodyDone /\ nbody >= 2 /\ calls = Order
    /\ convection = "Active" /\ upwelling = "Active"
    /\ heatingrates.net_htngrt # Zero

\* C17: when a run() stops because an iteration converged, the write step
\* of that iteration has already happened: if it was a write iteration the
\* record handed to the output file is the state of that iteration, and
\* if it was not, that state has not been written.
ConvergedExit == pc = "done" /\ nbody >= 1 /\ is_converged(deltaT, delta)

C17_WriteBeforeBreak ==
    ConvergedExit
        => /\ Len(wlog) >= 1
           /\ LastWrite.niter = niter /\ LastWrite.run = runs
           /\ Wrote(LastWrite)
                <=> check_if_write(outfile, writeevery, niter, timestep)
           /\ Wrote(LastWrite)
                => /\ LastWrite.ok
                   /\ written.niter = niter /\ written.run = runs
                   /\ written.T = T /\ written.deltaT = deltaT
                   /\ written.T = PostPhysics
           /\ ~Wrote(LastWrite)
                => \/ written = Nothing
                   \/ written.run # runs
                   \/ written.niter # niter

C17_Witness ==
    /\ ConvergedExit /\ niter >= 1 /\ Wrote(LastWrite)
    /\ written.T # InitialT

\* C18: when the output operation of iteration k raises, run() ends there:
\* the operation was attempted once, niter is k, nothing of the loop body
\* ran after it, converged is false and the state the body left (T, H2O,
\* deltaT, surface) stands.
C18_WriteFailureFatal ==
    error = "IOError"
        => /\ pc = "error"
           /\ Len(wlog) >= 1
           /\ Wrote(LastWrite) /\ ~LastWrite.ok
           /\ LastWrite.niter = niter /\ LastWrite.run = runs
           /\ Cardinality({i \in DOMAIN wlog :
                             wlog[i].run = runs /\ wlog[i].niter = niter}) = 1
           /\ calls = Order
           /\ nbody = niter - entry.niter + 1
           /\ converged = FALSE
           /\ T = PostPhysics
           /\ deltaT = [l \in Levels |-> T[l] - T_previous[l]]
           /\ H2O = HumidityOf(T, z)
           /\ surface.pressure = phlev[0]
           /\ (written = Nothing \/ written.run # runs
                 \/ written.niter # niter)

C18_Witness ==
    /\ error = "IOError" /\ pc = "error" /\ niter >= 1
    /\ T # T_previous /\ LastWrite.op = "append"

\* C19: a run() executes at most max_iterations - (niter at its entry)
\* loop bodies, and once started it ends: in Converged or Exhausted, or by
\* the exception of a call that did not return.
C19_Terminates ==
    /\ [](nbody <= max_iterations - entry.niter \/ nbody = 0)
    /\ (pc \notin {"idle", "done", "error"})
          ~> (pc = "done" \/ error # None)

C19_Witness ==
    /\ pc = "done" /\ runs = 2 /\ entry.niter >= 1 /\ nbody >= 1
    /\ nbody = max_iterations - entry.niter

\* C20: in the first run() with an output file and an int or float
\* writeevery, the write step of iteration 0 creates the file, every later
\* output operation is an append, and each iteration has one write step.
C20_CreateOnceThenAppend ==
    (Fresh /\ outfile # None /\ writeevery.type \in {"int", "float"})
        => /\ \A i \in DOMAIN wlog : wlog[i].niter = i - 1
           /\ \A i \in DOMAIN wlog :
                 IF i = 1 THEN wlog[i].op = "create"
                 ELSE wlog[i].op \in {"append", "none"}

C20_Witness ==
    /\ Fresh /\ outfile # None /\ writeevery.type = "float"
    /\ Len(wlog) >= 3
    /\ wlog[1].op = "create" /\ wlog[3].op = "append"

\* C21: the number of physics updates matches the iteration count.  When
\* the first run() of a controller has returned, get_heatingrates,
\* Surface.adjust, Convection.stabilize, Upwelling.cool and Humidity.get
\* have each been called niter + 1 times if the loop was left by the break
\* of the convergence test, and niter = max_iterations times if the loop
\* condition became false; at the end of every loop body the surface has
\* been adjusted exactly once in that body and once per body of the run.
SurfaceAdjustsInBody ==
    Cardinality({i \in DOMAIN calls : calls[i] = "surface_adjust"})

C21_InvocationCounts ==
    /\ (Fresh /\ pc = "done" /\ ConvergedExit)
           => \A c \in Counted : invoked[c] = niter + 1
    /\ (Fresh /\ pc = "done" /\ ~ConvergedExit)
           => /\ niter = max_iterations
              /\ \A c \in Counted : invoked[c] = niter
    /\ BodyDone => /\ SurfaceAdjustsInBody = 1
                   /\ invoked["surface_adjust"] = nbody

\* A first run() that converged in its third loop body (niter = 2): each
\* of the five methods has been called three times.
C21_Witness ==
    /\ Fresh /\ pc = "done" /\ ConvergedExit
    /\ niter = 2
    /\ \A c \in Counted : invoked[c] = 3

\* A first run() that used up max_iterations = 3 without converging: each
\* of the five methods has been called three times.
C21_WitnessExhausted ==
    /\ Fresh /\ pc = "done" /\ ~ConvergedExit
    /\ max_iterations = 3
    /\ \A c \in Counted : invoked[c] = 3

====
